---- MODULE Spec2Model ----
(***************************************************************************)
(* Product catalogue: the client store (useProductStore.ts), the search    *)
(* endpoint POST /api/products (part_000) and the list endpoint GET        *)
(* (part_001), over a product collection.                                  *)
(*                                                                         *)
(* Representation.  A JSON/JS value that may be missing (undefined, null,  *)
(* NaN) is Absent = <<>>, a present value v is Some(v) = <<v>>.  A string  *)
(* that the code inspects (searchQuery, minPrice, maxPrice, product name)  *)
(* is a sequence of one-character strings, so that parseFloat and the      *)
(* regular-expression match are computed, not assumed.  A timestamp is a   *)
(* number of milliseconds; the server's local time zone is UTC.            *)
(***************************************************************************)
EXTENDS Integers, Sequences, FiniteSets, TLC

\* ------------------------------------------------------------------ bounds
NumProducts == 4
MaxPage == 2
MaxItemsPerPage == 2
MaxDay == 2
MaxActiveFilters == 2

\* ------------------------------------------------------- program constants
DefaultPage == 1
DefaultItemsPerPage == 10
InitialItemsPerPage == 10
MsPerDay == 24 * 60 * 60 * 1000

Absent == <<>>
Some(v) == <<v>>

Min(a, b) == IF a <= b THEN a ELSE b
Max(a, b) == IF a >= b THEN a ELSE b

\* ---------------------------------------------------------------- strings
Digits == <<"0", "1", "2", "3", "4", "5", "6", "7", "8", "9">>
IsDigit(c) == \E k \in 1..10 : Digits[k] = c
DigitVal(c) == (CHOOSE k \in 1..10 : Digits[k] = c) - 1

RECURSIVE DigitPrefixVal(_, _)
\* value of the longest prefix of decimal digits of s, acc the value so far
DigitPrefixVal(s, acc) ==
    IF s = <<>> \/ ~IsDigit(Head(s)) THEN acc
    ELSE DigitPrefixVal(Tail(s), acc * 10 + DigitVal(Head(s)))

\* Number.parseFloat on a string of digits and letters: the number written by
\* the longest leading run of digits, NaN (Absent) when there is none.
ParseFloat(s) ==
    IF s = <<>> \/ ~IsDigit(Head(s)) THEN Absent ELSE Some(DigitPrefixVal(s, 0))

\* case folding of the $options: "i" match, over the alphabet {a, b, A, B}
Lower(c) == IF c = "A" THEN "a" ELSE IF c = "B" THEN "b" ELSE c
LowerStr(s) == [k \in 1..Len(s) |-> Lower(s[k])]

\* { $regex: pat, $options: "i" } for a pattern of letters: pat occurs in s
RegexMatchI(pat, s) ==
    \E k \in 0..(Len(s) - Len(pat)) :
        LowerStr(SubSeq(s, k + 1, k + Len(pat))) = LowerStr(pat)

\* JS truthiness of an optional string: present and not ""
Truthy(o) == o # Absent /\ o[1] # <<>>

\* --------------------------------------------------------------- products
Categories == <<"shoes", "bags", "hats">>
Day(d) == d * MsPerDay
StartOfDay(t) == t - (t % MsPerDay)
\* the end bound left at the instant the request names
EndOfDayAsGiven(t) == t
EndOfDay(t) == StartOfDay(t) + MsPerDay - 1

ProductIds == 1..NumProducts

\* The collection's documents.  Prices and creation times repeat, so that
\* every sort order has ties; every fourth product has no category.
Product(i) ==
    [_id |-> i,
     name |-> IF i % 2 = 1 THEN <<"a", "B">> ELSE <<"b">>,
     price |-> (i + 1) \div 2,
     createdAt |-> LET k == i \div 2
                   IN  IF k % 2 = 0 THEN Day(1 + k \div 2)
                       ELSE Day(1 + k \div 2) + MsPerDay - 1,
     category |-> IF i % 4 = 0 THEN Absent ELSE Some(Categories[i % 4])]

\* ------------------------------------------------------------ request body
\* The JSON body of POST /api/products; every key may be missing.
EmptyBody ==
    [searchQuery |-> Absent, startDate |-> Absent, endDate |-> Absent,
     minPrice |-> Absent, maxPrice |-> Absent, selectedCategories |-> Absent,
     sortOrder |-> Absent, page |-> Absent, itemsPerPage |-> Absent]

PageOf(b) == IF b.page = Absent THEN DefaultPage ELSE b.page[1]
ItemsPerPageOf(b) ==
    IF b.itemsPerPage = Absent THEN DefaultItemsPerPage ELSE b.itemsPerPage[1]

\* ------------------------------------------------------------ query builder
\* query.price / query.createdAt: an object with optional $gte and $lte
PriceBound(o) == IF Truthy(o) THEN ParseFloat(o[1]) ELSE Absent

BuildQuery(b) ==
    [name |-> IF Truthy(b.searchQuery) THEN Some(b.searchQuery[1]) ELSE Absent,
     category |->
        IF b.selectedCategories # Absent /\ Len(b.selectedCategories[1]) > 0
        THEN Some(b.selectedCategories[1]) ELSE Absent,
     createdAt |->
        IF b.startDate # Absent \/ b.endDate # Absent
        THEN Some([gte |-> IF b.startDate # Absent
                           THEN Some(StartOfDay(b.startDate[1])) ELSE Absent,
                   lte |-> IF b.endDate # Absent
                           THEN Some(EndOfDay(b.endDate[1])) ELSE Absent])
        ELSE Absent,
     price |->
        IF Truthy(b.minPrice) \/ Truthy(b.maxPrice)
        THEN Some([gte |-> PriceBound(b.minPrice), lte |-> PriceBound(b.maxPrice)])
        ELSE Absent]

MatchAll == [name |-> Absent, category |-> Absent, createdAt |-> Absent, price |-> Absent]

\* a builder that gives price-low-high the descending direction
SortOfSwapped(sortOrder) ==
    IF sortOrder = Some("oldest") THEN [key |-> "createdAt", dir |-> 1]
    ELSE IF sortOrder = Some("price-low-high") THEN [key |-> "price", dir |-> -1]
    ELSE IF sortOrder = Some("price-high-low") THEN [key |-> "price", dir |-> 1]
    ELSE [key |-> "createdAt", dir |-> -1]

SortOf(sortOrder) ==
    IF sortOrder = Some("oldest") THEN [key |-> "createdAt", dir |-> 1]
    ELSE IF sortOrder = Some("price-low-high") THEN [key |-> "price", dir |-> 1]
    ELSE IF sortOrder = Some("price-high-low") THEN [key |-> "price", dir |-> -1]
    ELSE [key |-> "createdAt", dir |-> -1]

\* ------------------------------------------------- the collection's queries
\* A condition object without operators, { price: {} }, is no range at all:
\* it asks for a price equal to the empty document.
IsEmptyDoc(r) == r.gte = Absent /\ r.lte = Absent
InRange(r, v) ==
    /\ r.gte = Absent \/ v >= r.gte[1]
    /\ r.lte = Absent \/ v <= r.lte[1]

Matches(q, p) ==
    /\ q.name = Absent \/ RegexMatchI(q.name[1], p.name)
    /\ q.category = Absent
        \/ /\ p.category # Absent
           /\ \E k \in 1..Len(q.category[1]) : q.category[1][k] = p.category[1]
    /\ q.createdAt = Absent \/ InRange(q.createdAt[1], p.createdAt)
    /\ q.price = Absent
        \/ (~IsEmptyDoc(q.price[1]) /\ InRange(q.price[1], p.price))

Matching(q, docs) == {i \in docs : Matches(q, Product(i))}

\* Casting { price: {} } to the schema's Number fails; a schema that leaves
\* price untyped passes it on as the equality above.
MayCastError(q) == q.price # Absent /\ IsEmptyDoc(q.price[1])

SortKey(s, i) == IF s.key = "price" THEN Product(i).price ELSE Product(i).createdAt
InOrder(s, i, j) ==
    IF s.dir = 1 THEN SortKey(s, i) <= SortKey(s, j) ELSE SortKey(s, i) >= SortKey(s, j)
IsSorted(s, o) == \A k \in 1..(Len(o) - 1) : InOrder(s, o[k], o[k + 1])

RECURSIVE Perms(_)
Perms(S) ==
    IF S = {} THEN {<<>>}
    ELSE UNION {{<<x>> \o o : o \in Perms(S \ {x})} : x \in S}

\* .sort(s): the documents in an order sorted by the key; documents with
\* equal keys come in an order the collection does not fix.
SortedSeqs(S, s) == {o \in Perms(S) : IsSorted(s, o)}

\* .skip(skip).limit(limit): limit 0 is no limit
Window(o, skip, limit) ==
    SubSeq(o, skip + 1, IF limit = 0 THEN Len(o) ELSE Min(Len(o), skip + limit))

\* Math.floor in place of Math.ceil
TotalPagesFloor(totalItems, itemsPerPage) ==
    IF itemsPerPage = 0 THEN Absent ELSE Some(totalItems \div itemsPerPage)

\* Math.ceil(totalItems / itemsPerPage) as JSON carries it: a division by
\* zero gives Infinity or NaN, which JSON.stringify writes as null.
TotalPages(totalItems, itemsPerPage) ==
    IF itemsPerPage = 0 THEN Absent
    ELSE Some((totalItems + itemsPerPage - 1) \div itemsPerPage)

\* ------------------------------------------------------------------- state
VARIABLES
    db,          \* the product collection: the ids of the documents in it
    srv,         \* the endpoint activations, one per request in progress
    products,    \* store: the products of the last successful fetch
    isLoading,   \* store
    error,       \* store: Absent for null, Some(message) otherwise
    filters,     \* store
    pagination,  \* store
    calls        \* the store's asynchronous actions in flight

storeVars == <<products, isLoading, error, filters, pagination>>
vars == <<db, srv, products, isLoading, error, filters, pagination, calls>>

MaxCalls == 2
CallIds == 1..MaxCalls

\* --------------------------------------------------------------- responses
FailureMessage == "An error occurred while fetching products"

\* Response.json({ success: true, products, pagination }, { status: 200 })
SearchSuccess(docs, totalItems, totalPages, page, itemsPerPage) ==
    [status |-> 200, success |-> TRUE, products |-> docs,
     pagination |-> Some([totalItems |-> totalItems, totalPages |-> totalPages,
                          currentPage |-> page, itemsPerPage |-> itemsPerPage]),
     message |-> Absent, error |-> Absent]

\* Response.json({ success: true, products }, { status: 200 })
ListSuccess(docs) ==
    [status |-> 200, success |-> TRUE, products |-> docs, pagination |-> Absent,
     message |-> Absent, error |-> Absent]

\* the failure envelope sent without { status: 500 }
FailureWithoutStatus(cause) ==
    [status |-> 200, success |-> FALSE, products |-> <<>>, pagination |-> Absent,
     message |-> Some(FailureMessage), error |-> Some(cause)]

\* Response.json({ success: false, message, error }, { status: 500 })
Failure(cause) ==
    [status |-> 500, success |-> FALSE, products |-> <<>>, pagination |-> Absent,
     message |-> Some(FailureMessage), error |-> Some(cause)]

\* ------------------------------------------------------------- activations
Idle ==
    [pc |-> "idle", kind |-> "none", body |-> EmptyBody, query |-> MatchAll,
     sort |-> SortOf(Absent), totalItems |-> 0,
     prev |-> Absent, resp |-> Absent]

\* a request arrives: the handler runs up to `await dbConnect()`
Activation(kind, body) == [Idle EXCEPT !.pc = "connect", !.kind = kind, !.body = body]

\* `await dbConnect()` resolves.  POST goes on to `await request.json()`;
\* GET issues find({}).sort({ createdAt: -1 }).
DbConnect(i) ==
    /\ srv[i].pc = "connect"
    /\ srv' = [srv EXCEPT ![i].pc = IF srv[i].kind = "GET" THEN "find" ELSE "json"]
    /\ UNCHANGED <<db, storeVars, calls>>

\* `await request.json()` resolves: the body is destructured, the query and
\* the sort are built, and countDocuments(query) is issued.
RequestJson(i) ==
    /\ srv[i].pc = "json"
    /\ srv' = [srv EXCEPT ![i].pc = "count",
                          ![i].query = BuildQuery(srv[i].body),
                          ![i].sort = SortOf(srv[i].body.sortOrder)]
    /\ UNCHANGED <<db, storeVars, calls>>

\* a count that leaves the query out: countDocuments()
CountEverything(i) ==
    /\ srv[i].pc = "count"
    /\ srv' = [srv EXCEPT ![i].pc = "find", ![i].totalItems = Cardinality(db)]
    /\ UNCHANGED <<db, storeVars, calls>>

\* `await ProductModel.countDocuments(query)` resolves; skip is computed and
\* find(query).sort(sort).skip(skip).limit(itemsPerPage) is issued.
CountDocuments(i) ==
    /\ srv[i].pc = "count"
    /\ srv' = [srv EXCEPT ![i].pc = "find",
                          ![i].totalItems = Cardinality(Matching(srv[i].query, db))]
    /\ UNCHANGED <<db, storeVars, calls>>

\* a skip that counts pages from 0
SkipFromZero(b) == PageOf(b) * ItemsPerPageOf(b)

Skip(b) == (PageOf(b) - 1) * ItemsPerPageOf(b)

\* the response of POST once find has resolved with docs
SearchResponse(a, docs) ==
    SearchSuccess(docs, a.totalItems,
                  TotalPages(a.totalItems, ItemsPerPageOf(a.body)),
                  PageOf(a.body), ItemsPerPageOf(a.body))

\* `await ProductModel.find(...)` resolves and the success envelope is
\* returned.  The collection rejects a negative skip (see Throw).
Find(i) ==
    /\ srv[i].pc = "find"
    /\ srv[i].kind = "GET" \/ Skip(srv[i].body) >= 0
    /\ \E o \in SortedSeqs(Matching(srv[i].query, db), srv[i].sort) :
          srv' = [srv EXCEPT
                    ![i].pc = "done",
                    ![i].resp =
                        IF srv[i].kind = "GET" THEN Some(ListSuccess(o))
                        ELSE Some(SearchResponse(srv[i],
                                    Window(o, Skip(srv[i].body),
                                           ItemsPerPageOf(srv[i].body))))]
    /\ UNCHANGED <<db, storeVars, calls>>

\* The errors the awaited step of activation a can reject with: an I/O
\* failure at any step, a CastError on { price: {} }, a negative skip.
Errors(a) ==
    {"io:" \o a.pc}
    \cup (IF a.pc \in {"count", "find"} /\ MayCastError(a.query)
          THEN {"CastError"} ELSE {})
    \cup (IF a.pc = "find" /\ a.kind = "POST" /\ Skip(a.body) < 0
          THEN {"BadValue: skip"} ELSE {})

\* catch (error): the failure envelope with status 500
Throw(i) ==
    /\ srv[i].pc \in {"connect", "json", "count", "find"}
    /\ \E e \in Errors(srv[i]) :
          srv' = [srv EXCEPT ![i].pc = "done", ![i].resp = Some(Failure(e))]
    /\ UNCHANGED <<db, storeVars, calls>>

\* the same request is sent again after a success response; the activation
\* keeps the earlier response in prev
SearchAgain(i) ==
    /\ srv[i].pc = "done"
    /\ srv[i].resp[1].success
    /\ srv[i].prev = Absent
    /\ srv' = [srv EXCEPT ![i] = [Activation(srv[i].kind, srv[i].body) EXCEPT
                                    !.prev = srv[i].resp]]
    /\ UNCHANGED <<db, storeVars, calls>>

\* ------------------------------------------------------ the store, at rest
InitialFilters ==
    [searchQuery |-> <<>>, startDate |-> Absent, endDate |-> Absent,
     minPrice |-> <<>>, maxPrice |-> <<>>, selectedCategories |-> <<>>,
     sortOrder |-> "newest"]

InitialPagination ==
    [currentPage |-> 1, itemsPerPage |-> InitialItemsPerPage,
     totalItems |-> 0, totalPages |-> Some(0)]

NoCall == [op |-> "none"]

InitStore ==
    /\ products = <<>>
    /\ isLoading = TRUE
    /\ error = Absent
    /\ filters = InitialFilters
    /\ pagination = InitialPagination
    /\ calls = [i \in CallIds |-> NoCall]

\* ------------------------------------------------- requests to the endpoint
Noon(d) == Day(d) + MsPerDay \div 2

SearchQueries == {Absent, Some(<<"A">>)}
CategoryLists == {Absent, Some(<<"shoes", "bags">>)}
DateInputs == {Absent} \cup {Some(Noon(d)) : d \in 1..MaxDay}
PriceInputs == {Absent, Some(<<"a", "b">>), Some(<<"2">>), Some(<<"1", "a">>)}
SortOrders ==
    {Absent, Some("newest"), Some("oldest"), Some("price-low-high"),
     Some("price-high-low"), Some("random")}
Pages == {Absent} \cup {Some(n) : n \in 0..MaxPage}
ItemsPerPages == {Absent} \cup {Some(n) : n \in 0..MaxItemsPerPage}

Count(o) == IF o = Absent THEN 0 ELSE 1
ActiveFilters(b) ==
    Count(b.searchQuery) + Count(b.selectedCategories) + Count(b.startDate)
    + Count(b.endDate) + Count(b.minPrice) + Count(b.maxPrice)

Bodies ==
    {b \in [searchQuery : SearchQueries, startDate : DateInputs,
            endDate : DateInputs, minPrice : PriceInputs, maxPrice : PriceInputs,
            selectedCategories : CategoryLists, sortOrder : SortOrders,
            page : Pages, itemsPerPage : ItemsPerPages] :
        ActiveFilters(b) <= MaxActiveFilters}

\* ----------------------------------------------- the endpoints on their own
InitSearch ==
    /\ db = ProductIds
    /\ \E a \in {Activation("POST", b) : b \in Bodies}
                \cup {Activation("GET", EmptyBody)} :
          srv = [i \in CallIds |-> IF i = 1 THEN a ELSE Idle]
    /\ InitStore

\* one request to POST (any body of Bodies) or to GET, answered, and sent
\* once more
NextSearch ==
    \E i \in CallIds :
        \/ DbConnect(i)
        \/ RequestJson(i)
        \/ CountDocuments(i)
        \/ Find(i)
        \/ Throw(i)
        \/ SearchAgain(i)

SpecSearch == InitSearch /\ [][NextSearch]_vars

\* ------------------------------------------- the endpoint on date ranges
\* requests with any start and end date, ranges that hold no day among
\* them, alone or with a text filter, on pages of any size
DateBodies ==
    {[EmptyBody EXCEPT !.startDate = s, !.endDate = e,
                       !.searchQuery = q, !.itemsPerPage = n] :
        s \in DateInputs, e \in DateInputs, q \in SearchQueries, n \in ItemsPerPages}

InitDates ==
    /\ db = ProductIds
    /\ \E b \in DateBodies :
          srv = [i \in CallIds |-> IF i = 1 THEN Activation("POST", b) ELSE Idle]
    /\ InitStore

SpecDates == InitDates /\ [][NextSearch]_vars

\* ------------------------------------------------- the store's setters
QueryArgs == {<<>>, <<"A">>}
DateArgs == DateInputs
PriceArgs == {<<>>, <<"a", "b">>, <<"2">>}
CategoryArgs == {"shoes", "bags", "hats"}
SortOrderArgs == {"newest", "oldest", "price-low-high", "price-high-low"}
PageArgs == 0..MaxPage
ItemsPerPageArgs == 0..MaxItemsPerPage

setSearchQuery(query) ==
    /\ filters' = [filters EXCEPT !.searchQuery = query]
    /\ pagination' = [pagination EXCEPT !.currentPage = 1]
    /\ UNCHANGED <<db, srv, products, isLoading, error, calls>>

setStartDate(date) ==
    /\ filters' = [filters EXCEPT !.startDate = date]
    /\ pagination' = [pagination EXCEPT !.currentPage = 1]
    /\ UNCHANGED <<db, srv, products, isLoading, error, calls>>

setEndDate(date) ==
    /\ filters' = [filters EXCEPT !.endDate = date]
    /\ pagination' = [pagination EXCEPT !.currentPage = 1]
    /\ UNCHANGED <<db, srv, products, isLoading, error, calls>>

setMinPrice(price) ==
    /\ filters' = [filters EXCEPT !.minPrice = price]
    /\ pagination' = [pagination EXCEPT !.currentPage = 1]
    /\ UNCHANGED <<db, srv, products, isLoading, error, calls>>

setMaxPrice(price) ==
    /\ filters' = [filters EXCEPT !.maxPrice = price]
    /\ pagination' = [pagination EXCEPT !.currentPage = 1]
    /\ UNCHANGED <<db, srv, products, isLoading, error, calls>>

\* Array.prototype.includes / filter / spread
Includes(list, x) == \E k \in 1..Len(list) : list[k] = x
\* a removal that drops the last id, whichever id was toggled
WithoutLast(list, x) == SubSeq(list, 1, Len(list) - 1)
Without(list, x) == SelectSeq(list, LAMBDA id : id # x)
toggleCategory(categoryId) ==
    /\ filters' = [filters EXCEPT !.selectedCategories =
                      IF Includes(filters.selectedCategories, categoryId)
                      THEN Without(filters.selectedCategories, categoryId)
                      ELSE Append(filters.selectedCategories, categoryId)]
    /\ pagination' = [pagination EXCEPT !.currentPage = 1]
    /\ UNCHANGED <<db, srv, products, isLoading, error, calls>>

setSortOrder(order) ==
    /\ filters' = [filters EXCEPT !.sortOrder = order]
    /\ UNCHANGED <<db, srv, products, isLoading, error, pagination, calls>>

\* a reset that leaves the sort order as it is
resetFiltersKeepsSort ==
    /\ filters' = [InitialFilters EXCEPT !.sortOrder = filters.sortOrder]
    /\ pagination' = [pagination EXCEPT !.currentPage = 1]
    /\ UNCHANGED <<db, srv, products, isLoading, error, calls>>

resetFilters ==
    /\ filters' = InitialFilters
    /\ pagination' = [pagination EXCEPT !.currentPage = 1]
    /\ UNCHANGED <<db, srv, products, isLoading, error, calls>>

setCurrentPage(page) ==
    /\ pagination' = [pagination EXCEPT !.currentPage = page]
    /\ UNCHANGED <<db, srv, products, isLoading, error, filters, calls>>

setItemsPerPage(items) ==
    /\ pagination' = [pagination EXCEPT !.itemsPerPage = items, !.currentPage = 1]
    /\ UNCHANGED <<db, srv, products, isLoading, error, filters, calls>>

InitClient ==
    /\ db = ProductIds
    /\ srv = [i \in CallIds |-> Idle]
    /\ InitStore

\* the synchronous setters alone, in any order and with any argument
NextSetters ==
    \/ \E query \in QueryArgs : setSearchQuery(query)
    \/ \E date \in DateArgs : setStartDate(date)
    \/ \E date \in DateArgs : setEndDate(date)
    \/ \E price \in PriceArgs : setMinPrice(price)
    \/ \E price \in PriceArgs : setMaxPrice(price)
    \/ \E categoryId \in CategoryArgs : toggleCategory(categoryId)
    \/ \E order \in SortOrderArgs : setSortOrder(order)
    \/ resetFilters
    \/ \E page \in PageArgs : setCurrentPage(page)
    \/ \E items \in ItemsPerPageArgs : setItemsPerPage(items)

SpecSetters == InitClient /\ [][NextSetters]_vars

\* ------------------------------------------------------- fetchProducts
\* the JSON of { ...filters, page, itemsPerPage }: an undefined date is left out
RequestBodyOf(f, pg) ==
    [searchQuery |-> Some(f.searchQuery),
     startDate |-> f.startDate,
     endDate |-> f.endDate,
     minPrice |-> Some(f.minPrice),
     maxPrice |-> Some(f.maxPrice),
     selectedCategories |-> Some(f.selectedCategories),
     sortOrder |-> Some(f.sortOrder),
     page |-> Some(pg.currentPage),
     itemsPerPage |-> Some(pg.itemsPerPage)]

RequestBody == RequestBodyOf(filters, pagination)

\* A fetchProducts call that waits for its response.  rank is its place
\* among the calls in flight in the order they were issued (1 is the
\* oldest); superseded tells that the success response of a call issued
\* after it has been applied already.  Neither exists in the code: they
\* record the order of the calls for the properties that speak of it.
FetchCall ==
    [op |-> "fetch",
     rank |-> 1 + Cardinality({j \in CallIds : calls[j].op = "fetch"}),
     superseded |-> FALSE]

\* the calls once call i has settled, its response applied to the store or not
Settled(i, applied) ==
    [j \in CallIds |->
        IF j = i THEN NoCall
        ELSE IF calls[j].op # "fetch" THEN calls[j]
        ELSE [calls[j] EXCEPT
                !.rank = IF @ > calls[i].rank THEN @ - 1 ELSE @,
                !.superseded = @ \/ (applied /\ calls[j].rank < calls[i].rank)]]

\* fetchProducts up to `await axios.post(...)`: the flags are set and the
\* request leaves with the filters and the page of this moment
fetchProducts(i) ==
    /\ calls[i].op = "none"
    /\ srv[i].pc = "idle"
    /\ isLoading' = TRUE
    /\ error' = Absent
    /\ srv' = [srv EXCEPT ![i] = Activation("POST", RequestBody)]
    /\ calls' = [calls EXCEPT ![i] = FetchCall]
    /\ UNCHANGED <<db, products, filters, pagination>>

\* A response that does not come from the endpoint: something between the
\* client and the handler answers with an envelope of its own.
OtherReplies ==
    {[status |-> st, success |-> FALSE, products |-> <<>>, pagination |-> Absent,
      message |-> Some("Unauthorized"), error |-> Absent] : st \in {200, 401}}

\* call i waits for the response to a search request: fetchProducts itself,
\* or the fetchProducts that addProduct and deleteProduct await
Awaiting(i) ==
    \/ calls[i].op = "fetch"
    \/ calls[i].op \in {"add", "delete"} /\ calls[i].phase = "refetch"

OtherReply(i) ==
    /\ Awaiting(i)
    /\ srv[i].pc = "connect"
    /\ \E r \in OtherReplies :
          srv' = [srv EXCEPT ![i].pc = "done", ![i].resp = Some(r)]
    /\ UNCHANGED <<db, storeVars, calls>>

UnknownError == "An unknown error occurred"
NetworkError == "Network Error"
StatusError == "Request failed with status code"

\* axios rejects a response whose status is outside 200..299
IsAxiosError(r) == r.status \notin 200..299

\* error.response?.data?.message || error.message
AxiosMessage(r) ==
    IF r.message # Absent /\ r.message[1] # "" THEN r.message ELSE Some(StatusError)

\* the store after the awaited post has settled with response r
FetchSettled(r) ==
    IF ~IsAxiosError(r) /\ r.success
    THEN /\ products' = r.products
         /\ pagination' = r.pagination[1]
         /\ isLoading' = FALSE
         /\ UNCHANGED error
    ELSE /\ error' = IF IsAxiosError(r) THEN AxiosMessage(r) ELSE Some(UnknownError)
         /\ isLoading' = FALSE
         /\ UNCHANGED <<products, pagination>>

\* `await axios.post(...)` settles with the response of the exchange
FetchResponse(i) ==
    /\ calls[i].op = "fetch"
    /\ srv[i].pc = "done"
    /\ FetchSettled(srv[i].resp[1])
    /\ srv' = [srv EXCEPT ![i] = Idle]
    /\ calls' = Settled(i, ~IsAxiosError(srv[i].resp[1]) /\ srv[i].resp[1].success)
    /\ UNCHANGED <<db, filters>>

\* `await axios.post(...)` rejects without a response: the request or the
\* response is lost, wherever the handler has got to
FetchNoResponse(i) ==
    /\ calls[i].op = "fetch"
    /\ srv[i].pc # "idle"
    /\ error' = Some(NetworkError)
    /\ isLoading' = FALSE
    /\ srv' = [srv EXCEPT ![i] = Idle]
    /\ calls' = Settled(i, FALSE)
    /\ UNCHANGED <<db, products, filters, pagination>>

\* The store with its requests in flight, up to MaxCalls at a time, against
\* the endpoint.  Of the setters it has the two that a request reads back:
\* one filter (setSearchQuery) and the page (setCurrentPage); SpecSetters
\* has them all.
Next ==
    \/ \E i \in CallIds :
          \/ fetchProducts(i)
          \/ DbConnect(i)
          \/ RequestJson(i)
          \/ CountDocuments(i)
          \/ Find(i)
          \/ Throw(i)
          \/ OtherReply(i)
          \/ FetchResponse(i)
          \/ FetchNoResponse(i)
    \/ \E query \in QueryArgs : setSearchQuery(query)
    \/ \E page \in PageArgs : setCurrentPage(page)

Spec == InitClient /\ [][Next]_vars

\* ------------------------------------- the setters on a store that has fetched
\* The responses the first fetchProducts of a new store can settle with:
\* the first page of the whole catalogue, in one of the orders the sort
\* leaves open, or the endpoint's failure envelope.
FirstBody == RequestBodyOf(InitialFilters, InitialPagination)

FirstResponses ==
    {SearchResponse([Activation("POST", FirstBody) EXCEPT
                        !.totalItems = Cardinality(Matching(BuildQuery(FirstBody),
                                                            ProductIds))],
                    Window(o, Skip(FirstBody), ItemsPerPageOf(FirstBody)))
        : o \in SortedSeqs(Matching(BuildQuery(FirstBody), ProductIds),
                           SortOf(FirstBody.sortOrder))}
    \cup {Failure("io:connect")}

\* the new store, or the store once its first fetchProducts has settled
InitFetched ==
    /\ db = ProductIds
    /\ srv = [i \in CallIds |-> Idle]
    /\ calls = [i \in CallIds |-> NoCall]
    /\ filters = InitialFilters
    /\ \/ /\ products = <<>>
          /\ isLoading = TRUE
          /\ error = Absent
          /\ pagination = InitialPagination
       \/ \E r \in FirstResponses :
             /\ isLoading = FALSE
             /\ products = r.products
             /\ pagination = IF r.success THEN r.pagination[1] ELSE InitialPagination
             /\ error = IF r.success THEN Absent ELSE AxiosMessage(r)

\* every setter: toggleCategory with every category, the others with the
\* initial value of their field and one other
NextFetched ==
    \/ \E query \in QueryArgs : setSearchQuery(query)
    \/ \E date \in {Absent, Some(Noon(1))} : setStartDate(date)
    \/ \E date \in {Absent, Some(Noon(1))} : setEndDate(date)
    \/ \E price \in {<<>>, <<"2">>} : setMinPrice(price)
    \/ \E price \in {<<>>, <<"2">>} : setMaxPrice(price)
    \/ \E categoryId \in CategoryArgs : toggleCategory(categoryId)
    \/ \E order \in {"newest", "oldest"} : setSortOrder(order)
    \/ resetFilters
    \/ \E page \in {1, 2} : setCurrentPage(page)
    \/ \E items \in {1, InitialItemsPerPage} : setItemsPerPage(items)

SpecFetched == InitFetched /\ [][NextFetched]_vars

\* ------------------------------------- searches while the collection is written
\* The write endpoints (add-product, delete-product) as the collection sees
\* them: a document appears, a document goes.  The documents written are
\* one that matches the text "A" and one that does not.
WrittenIds == {1, NumProducts}

AddProductEndpoint(p) ==
    /\ p \notin db
    /\ db' = db \cup {p}
    /\ UNCHANGED <<srv, storeVars, calls>>

DeleteProductEndpoint(p) ==
    /\ p \in db
    /\ db' = db \ {p}
    /\ UNCHANGED <<srv, storeVars, calls>>

ConcurrentBodies == {EmptyBody, [EmptyBody EXCEPT !.searchQuery = Some(<<"A">>)]}

\* two searches have arrived, each with one of the bodies
InitConcurrent ==
    /\ db = ProductIds
    /\ srv \in [CallIds -> {Idle} \cup {Activation("POST", b) : b \in ConcurrentBodies}]
    /\ \A i \in CallIds : (srv[i] = Idle) <=> (i > 2)
    /\ InitStore

NextConcurrent ==
    \/ \E i \in CallIds :
          \/ DbConnect(i)
          \/ RequestJson(i)
          \/ CountDocuments(i)
          \/ Find(i)
          \/ Throw(i)
    \/ \E p \in WrittenIds :
          \/ AddProductEndpoint(p)
          \/ DeleteProductEndpoint(p)

SpecConcurrent == InitConcurrent /\ [][NextConcurrent]_vars

\* ------------------------------------------- addProduct and deleteProduct
\* A call of addProduct or deleteProduct.  phase is the await it stands at:
\* "write" (the post or delete request), "refetch" (fetchProducts), and
\* "returned" once its promise has resolved with `returned`.  target is the
\* id passed to deleteProduct.  addProduct returns { success, message },
\* deleteProduct the boolean alone (message is Absent).  fetches counts the
\* search requests the call has sent; the code has no such counter.
WriteCall(op, target) ==
    [op |-> op, target |-> target, phase |-> "write", fetches |-> 0,
     returned |-> Absent]

Added == "Product added successfully"

\* addProduct / deleteProduct up to `await axios.post(...)` / `axios.delete(...)`
addProduct(i) ==
    /\ calls[i].op = "none"
    /\ srv[i].pc = "idle"
    /\ isLoading' = TRUE
    /\ error' = Absent
    /\ calls' = [calls EXCEPT ![i] = WriteCall("add", Absent)]
    /\ UNCHANGED <<db, srv, products, filters, pagination>>

deleteProduct(i, id) ==
    /\ calls[i].op = "none"
    /\ srv[i].pc = "idle"
    /\ isLoading' = TRUE
    /\ error' = Absent
    /\ calls' = [calls EXCEPT ![i] = WriteCall("delete", Some(id))]
    /\ UNCHANGED <<db, srv, products, filters, pagination>>

\* the collection after the write endpoint has served call c
Written(c) ==
    IF c.op = "add" THEN {db \cup {p} : p \in WrittenIds \ db}
    ELSE IF c.target[1] \in db THEN {db \ {c.target[1]}} ELSE {}

\* the write resolves and the call returns at once, without fetchProducts
WriteResolvesWithoutFetch(i) ==
    /\ calls[i].op \in {"add", "delete"}
    /\ calls[i].phase = "write"
    /\ db' \in Written(calls[i])
    /\ isLoading' = FALSE
    /\ calls' = [calls EXCEPT
                    ![i].phase = "returned",
                    ![i].returned =
                        Some([success |-> TRUE,
                              message |-> IF calls[i].op = "add" THEN Some(Added)
                                          ELSE Absent])]
    /\ UNCHANGED <<srv, products, error, filters, pagination>>

\* The write request resolves: the endpoint has written the collection, and
\* the call goes on into fetchProducts up to its `await axios.post(...)`.
WriteResolves(i) ==
    /\ calls[i].op \in {"add", "delete"}
    /\ calls[i].phase = "write"
    /\ db' \in Written(calls[i])
    /\ isLoading' = TRUE
    /\ error' = Absent
    /\ srv' = [srv EXCEPT ![i] = Activation("POST", RequestBody)]
    /\ calls' = [calls EXCEPT ![i].phase = "refetch", ![i].fetches = @ + 1]
    /\ UNCHANGED <<products, filters, pagination>>

\* the messages a failed write request carries: axios' own when there is no
\* response, or the message of a failure envelope sent with a status
\* outside 2xx
WriteFailures == {NetworkError, "Unauthorized"}

\* The write request rejects: catch sets error and clears isLoading, and the
\* call returns the failure.
WriteRejects(i) ==
    /\ calls[i].op \in {"add", "delete"}
    /\ calls[i].phase = "write"
    /\ \E msg \in WriteFailures :
          /\ error' = Some(msg)
          /\ calls' = [calls EXCEPT
                          ![i].phase = "returned",
                          ![i].returned =
                              Some([success |-> FALSE,
                                    message |-> IF calls[i].op = "add" THEN Some(msg)
                                                ELSE Absent])]
    /\ isLoading' = FALSE
    /\ UNCHANGED <<db, srv, products, filters, pagination>>

\* a call that returns the outcome of its fetchProducts
AfterRefetchReportsFetch(c) ==
    [c EXCEPT !.phase = "returned",
              !.returned = Some([success |-> error' = Absent,
                                 message |-> IF c.op = "add" THEN Some(Added)
                                             ELSE Absent])]

\* what the call returns after `await get().fetchProducts()`
AfterRefetch(c) ==
    [c EXCEPT !.phase = "returned",
              !.returned = Some([success |-> TRUE,
                                 message |-> IF c.op = "add" THEN Some(Added)
                                             ELSE Absent])]

\* The awaited fetchProducts settles with a response: it has handled the
\* response itself, and the call clears isLoading and returns success.
RefetchSettles(i) ==
    /\ calls[i].op \in {"add", "delete"}
    /\ calls[i].phase = "refetch"
    /\ srv[i].pc = "done"
    /\ FetchSettled(srv[i].resp[1])
    /\ srv' = [srv EXCEPT ![i] = Idle]
    /\ calls' = [calls EXCEPT ![i] = AfterRefetch(calls[i])]
    /\ UNCHANGED <<db, filters>>

\* the awaited fetchProducts gets no response
RefetchNoResponse(i) ==
    /\ calls[i].op \in {"add", "delete"}
    /\ calls[i].phase = "refetch"
    /\ srv[i].pc # "idle"
    /\ error' = Some(NetworkError)
    /\ isLoading' = FALSE
    /\ srv' = [srv EXCEPT ![i] = Idle]
    /\ calls' = [calls EXCEPT ![i] = AfterRefetch(calls[i])]
    /\ UNCHANGED <<db, products, filters, pagination>>

\* the caller has the returned value
Resolved(i) ==
    /\ calls[i].op \in {"add", "delete"}
    /\ calls[i].phase = "returned"
    /\ calls' = [calls EXCEPT ![i] = NoCall]
    /\ UNCHANGED <<db, srv, storeVars>>

\* The store with one addProduct or deleteProduct call at a time (the caller
\* awaits each), the write endpoints and the search endpoint, and the two
\* setters a request reads back.
NextWrite ==
    \/ \E i \in {1} :
          \/ addProduct(i)
          \/ \E id \in WrittenIds : deleteProduct(i, id)
          \/ WriteResolves(i)
          \/ WriteRejects(i)
          \/ DbConnect(i)
          \/ RequestJson(i)
          \/ CountDocuments(i)
          \/ Find(i)
          \/ Throw(i)
          \/ OtherReply(i)
          \/ RefetchSettles(i)
          \/ RefetchNoResponse(i)
          \/ Resolved(i)
    \/ \E query \in QueryArgs : setSearchQuery(query)
    \/ \E page \in PageArgs : setCurrentPage(page)

SpecWrite == InitClient /\ [][NextWrite]_vars

\* ======================================================= claims on the store
\* C1: every step that changes a field of filters leaves currentPage = 1.
C1_FilterChangeResetsPage ==
    [][filters' # filters => pagination'.currentPage = 1]_vars

\* the awaited post of call i settles with a response
Settles(i) == calls[i].op = "fetch" /\ srv[i].pc = "done" /\ calls'[i].op = "none"

\* C2: when a fetchProducts call settles with a non-success envelope
\* (success = false and a message, whatever the status), the step leaves
\* products as it was, sets error to the envelope's message and clears
\* isLoading.
C2_NonSuccessEnvelopeUniform ==
    [][\A i \in CallIds :
          (Settles(i) /\ ~srv[i].resp[1].success /\ srv[i].resp[1].message # Absent)
              => /\ products' = products
                 /\ error' = srv[i].resp[1].message
                 /\ isLoading' = FALSE]_vars

\* ===================================================== claims on the endpoint
Posted(i) == srv[i].kind = "POST"
Answered(i) == srv[i].pc = "done"
Succeeded(i) == Answered(i) /\ srv[i].resp[1].success
Page(i) == srv[i].resp[1].pagination[1]

\* C3: every request whose itemsPerPage is <= 0 is answered by a failure
\* envelope (success = false with a message), never by a success envelope.
C3_NonPositiveItemsPerPageFails ==
    \A i \in CallIds :
        (Posted(i) /\ Answered(i) /\ ItemsPerPageOf(srv[i].body) <= 0)
            => (~srv[i].resp[1].success /\ srv[i].resp[1].message # Absent)

\* a price string that is given and does not parse as a number
Unparseable(o) == Truthy(o) /\ ParseFloat(o[1]) = Absent

\* C4: once the count has resolved, a request whose minPrice (maxPrice) is
\* unparseable has counted exactly the documents that the same request
\* without minPrice (maxPrice) matches.
C4_UnparseableBoundIgnored ==
    \A i \in CallIds :
        (Posted(i) /\ srv[i].pc = "find") =>
            /\ Unparseable(srv[i].body.minPrice) =>
                srv[i].totalItems = Cardinality(Matching(
                    BuildQuery([srv[i].body EXCEPT !.minPrice = Absent]), db))
            /\ Unparseable(srv[i].body.maxPrice) =>
                srv[i].totalItems = Cardinality(Matching(
                    BuildQuery([srv[i].body EXCEPT !.maxPrice = Absent]), db))

\* C5: in every success response with itemsPerPage > 0, totalPages is the
\* least n with n * itemsPerPage >= totalItems (so 0 when totalItems = 0),
\* and currentPage and itemsPerPage are the requested ones.
C5_TotalPagesIsCeiling ==
    \A i \in CallIds :
        (Posted(i) /\ Succeeded(i) /\ ItemsPerPageOf(srv[i].body) > 0) =>
            LET pg == Page(i)
                n == ItemsPerPageOf(srv[i].body)
            IN  /\ pg.totalItems >= 0
                /\ pg.totalPages # Absent
                /\ pg.totalPages[1] * n >= pg.totalItems
                /\ (pg.totalPages[1] - 1) * n < pg.totalItems
                /\ pg.totalItems = 0 => pg.totalPages[1] = 0
                /\ srv[i].body.page # Absent => pg.currentPage = srv[i].body.page[1]
                /\ pg.itemsPerPage = n

C5_Witness ==
    \E i \in CallIds :
        /\ Posted(i) /\ Succeeded(i)
        /\ srv[i].body.itemsPerPage = Some(2) /\ srv[i].body.page = Some(2)
        /\ Page(i).totalItems = 3 /\ Page(i).totalPages = Some(2)
        /\ Page(i).currentPage = 2

\* C6: in every success response with itemsPerPage > 0 the products are the
\* elements skip+1 .. skip+itemsPerPage of a sorted sequence of the matching
\* documents, skip = (page - 1) * itemsPerPage; their number is
\* min(itemsPerPage, max(0, totalItems - skip)); a page beyond totalPages
\* gives no products and leaves totalPages the ceiling.
C6_PageIsWindow ==
    \A i \in CallIds :
        (Posted(i) /\ Succeeded(i) /\ ItemsPerPageOf(srv[i].body) > 0) =>
            LET n == ItemsPerPageOf(srv[i].body)
                skip == (PageOf(srv[i].body) - 1) * n
                docs == srv[i].resp[1].products
                total == Page(i).totalItems
            IN  /\ \E o \in SortedSeqs(Matching(srv[i].query, db), srv[i].sort) :
                      docs = [k \in 1..Min(n, Max(0, Len(o) - skip)) |-> o[skip + k]]
                /\ Len(docs) = Min(n, Max(0, total - skip))
                /\ PageOf(srv[i].body) > Page(i).totalPages[1] =>
                      /\ docs = <<>>
                      /\ Page(i).totalPages[1] * n >= total
                      /\ (Page(i).totalPages[1] - 1) * n < total

C6_Witness ==
    \E i \in CallIds :
        /\ Posted(i) /\ Succeeded(i)
        /\ srv[i].body.itemsPerPage = Some(2) /\ srv[i].body.page = Some(2)
        /\ Page(i).totalItems = 3
        /\ Len(srv[i].resp[1].products) = 1

C6_WitnessBeyond ==
    \E i \in CallIds :
        /\ Posted(i) /\ Succeeded(i)
        /\ srv[i].body.itemsPerPage = Some(1) /\ srv[i].body.page = Some(2)
        /\ Page(i).totalItems = 1 /\ Page(i).totalPages = Some(1)
        /\ srv[i].resp[1].products = <<>>

\* C7: a step of an activation that fails ends the activation with a failure
\* envelope: success = false, a message, a status outside 200..299; and every
\* activation that ends, ends with an envelope.
C7_FailureEnvelope ==
    [][\A i \in CallIds :
          (srv[i].pc # "done" /\ srv'[i].pc = "done") =>
              /\ srv'[i].resp # Absent
              /\ Throw(i) =>
                    /\ ~srv'[i].resp[1].success
                    /\ srv'[i].resp[1].message # Absent
                    /\ srv'[i].resp[1].message[1] # ""
                    /\ srv'[i].resp[1].status \notin 200..299]_vars

C7_Witness ==
    \E i \in CallIds :
        /\ Answered(i)
        /\ srv[i].resp[1].error = Some("io:find")
        /\ ~srv[i].resp[1].success
        /\ srv[i].resp[1].status = 500

\* what the filters of body b ask of product p, filter by filter
SatisfiesFilters(b, p) ==
    /\ Truthy(b.searchQuery) => RegexMatchI(b.searchQuery[1], p.name)
    /\ (b.selectedCategories # Absent /\ b.selectedCategories[1] # <<>>) =>
          /\ p.category # Absent
          /\ \E k \in 1..Len(b.selectedCategories[1]) :
                b.selectedCategories[1][k] = p.category[1]
    /\ b.startDate # Absent => p.createdAt >= StartOfDay(b.startDate[1])
    /\ b.endDate # Absent => p.createdAt <= EndOfDay(b.endDate[1])
    /\ (Truthy(b.minPrice) /\ ParseFloat(b.minPrice[1]) # Absent) =>
          p.price >= ParseFloat(b.minPrice[1])[1]
    /\ (Truthy(b.maxPrice) /\ ParseFloat(b.maxPrice[1]) # Absent) =>
          p.price <= ParseFloat(b.maxPrice[1])[1]

C9_SortOrder ==
    \A i \in CallIds :
        (Posted(i) /\ Succeeded(i)) =>
            LET docs == srv[i].resp[1].products
                so == srv[i].body.sortOrder
            IN  \A k \in 1..(Len(docs) - 1) :
                    LET a == Product(docs[k])
                        b == Product(docs[k + 1])
                    IN  IF so = Some("oldest") THEN a.createdAt <= b.createdAt
                        ELSE IF so = Some("price-low-high") THEN a.price <= b.price
                        ELSE IF so = Some("price-high-low") THEN a.price >= b.price
                        ELSE a.createdAt >= b.createdAt

C9_Witness ==
    \E i \in CallIds :
        /\ Posted(i) /\ Succeeded(i)
        /\ srv[i].body.sortOrder = Some("price-low-high")
        /\ Len(srv[i].resp[1].products) = NumProducts
        /\ Product(srv[i].resp[1].products[1]).price
              < Product(srv[i].resp[1].products[NumProducts]).price

\* C10: the same request, answered twice with success against the unchanged
\* collection, gets the same response both times.
C10_SearchIsDeterministic ==
    \A i \in CallIds :
        (Posted(i) /\ Succeeded(i) /\ srv[i].prev # Absent) =>
            srv[i].resp = srv[i].prev

\* the first and the last millisecond of the calendar day that holds t
FirstMs(t) == (t \div MsPerDay) * MsPerDay
LastMs(t) == (t \div MsPerDay) * MsPerDay + (MsPerDay - 1)

\* p was created within the request's date bounds, the days taken whole
WithinDates(b, p) ==
    /\ b.startDate # Absent => p.createdAt >= FirstMs(b.startDate[1])
    /\ b.endDate # Absent => p.createdAt <= LastMs(b.endDate[1])

\* C11: every product of a success response was created no earlier than
\* 00:00:00.000 of startDate's day, when startDate is given, and no later
\* than 23:59:59.999 of endDate's day, when endDate is given, both ends
\* included; and a request that filters by dates only has counted every
\* document within those bounds, so a date that is not given bounds nothing.
C11_DateRangeInclusive ==
    \A i \in CallIds :
        /\ (Posted(i) /\ Succeeded(i)) =>
              \A k \in 1..Len(srv[i].resp[1].products) :
                  WithinDates(srv[i].body, Product(srv[i].resp[1].products[k]))
        /\ ( /\ Posted(i) /\ srv[i].pc = "find"
             /\ ~Truthy(srv[i].body.searchQuery)
             /\ srv[i].body.selectedCategories = Absent
             /\ srv[i].body.minPrice = Absent /\ srv[i].body.maxPrice = Absent )
            => srv[i].totalItems =
                  Cardinality({p \in db : WithinDates(srv[i].body, Product(p))})

\* a one-day range answered with the product created at the day's first
\* millisecond and the products created at its last
C11_Witness ==
    \E i \in CallIds :
        /\ Posted(i) /\ Succeeded(i)
        /\ srv[i].body.startDate = Some(Noon(1))
        /\ srv[i].body.endDate = Some(Noon(1))
        /\ \E k, l \in 1..Len(srv[i].resp[1].products) :
              /\ Product(srv[i].resp[1].products[k]).createdAt = Day(1)
              /\ Product(srv[i].resp[1].products[l]).createdAt = Day(1) + MsPerDay - 1

\* C13: in every state of the store currentPage >= 1 and itemsPerPage >= 1,
\* and every request in flight carries a page >= 1 and an itemsPerPage >= 1.
C13_PageRequestPositive ==
    /\ pagination.currentPage >= 1
    /\ pagination.itemsPerPage >= 1
    /\ \A i \in CallIds :
          (calls[i].op = "fetch" /\ srv[i].pc # "idle")
              => (PageOf(srv[i].body) >= 1 /\ ItemsPerPageOf(srv[i].body) >= 1)

\* the ids of a list, and a list that holds no id twice
IdsOf(list) == {list[k] : k \in 1..Len(list)}
NoDuplicates(list) == \A k, l \in 1..Len(list) : list[k] = list[l] => k = l

\* list r is list s with one element left out, the others in their order
OneLeftOut(s, r) ==
    /\ Len(r) = Len(s) - 1
    /\ \E n \in 1..Len(s) :
          \A k \in 1..Len(r) : r[k] = IF k < n THEN s[k] ELSE s[k + 1]

\* C19: selectedCategories never holds an id twice.  A toggleCategory step
\* with an id that is not selected puts it at the end of the list; with an
\* id that is selected it removes that id and keeps the others in their
\* order; and toggling the same id once more gives back the ids that were
\* selected before the step.
C19_ToggleKeepsDuplicateFree ==
    [][\A categoryId \in CategoryArgs :
          toggleCategory(categoryId) =>
              LET old == filters.selectedCategories
                  new == filters'.selectedCategories
                  again == IF Includes(new, categoryId)
                           THEN Without(new, categoryId)
                           ELSE Append(new, categoryId)
              IN  /\ NoDuplicates(new)
                  /\ categoryId \notin IdsOf(old) =>
                        /\ Len(new) = Len(old) + 1
                        /\ new[Len(new)] = categoryId
                        /\ SubSeq(new, 1, Len(old)) = old
                  /\ categoryId \in IdsOf(old) =>
                        /\ categoryId \notin IdsOf(new)
                        /\ OneLeftOut(old, new)
                  /\ IdsOf(again) = IdsOf(old)
                  /\ NoDuplicates(again)]_vars

\* three categories are selected, the one toggled first at the end of the
\* list
C19_Witness == filters.selectedCategories = <<"bags", "hats", "shoes">>

\* a step that changes no field of filters but f
OnlyFilter(f) == \A g \in DOMAIN filters \ {f} : filters'[g] = filters[g]

\* a step that leaves the fetched data and the flags alone and sends nothing
LeavesFetched ==
    /\ products' = products
    /\ isLoading' = isLoading
    /\ error' = error
    /\ pagination'.totalItems = pagination.totalItems
    /\ pagination'.totalPages = pagination.totalPages
    /\ srv' = srv /\ calls' = calls /\ db' = db

\* a filter setter's step: its field, and currentPage back to 1
FilterStep(f, v) ==
    /\ OnlyFilter(f)
    /\ filters'[f] = v
    /\ pagination'.currentPage = 1
    /\ pagination'.itemsPerPage = pagination.itemsPerPage

\* C20: a step of setSearchQuery, setStartDate, setEndDate, setMinPrice,
\* setMaxPrice or toggleCategory changes its one filter field and sets
\* currentPage to 1; setSortOrder changes sortOrder only; setCurrentPage
\* changes currentPage only; setItemsPerPage sets itemsPerPage and puts
\* currentPage to 1; resetFilters gives every filter field its initial value
\* and puts currentPage to 1.  All of them leave products, isLoading, error,
\* totalItems and totalPages as they were, all but setItemsPerPage leave
\* itemsPerPage as it was, and none sends a request.
C20_SettersFrame ==
    [][/\ NextFetched => LeavesFetched
       /\ \A query \in QueryArgs :
             setSearchQuery(query) => FilterStep("searchQuery", query)
       /\ \A date \in DateArgs :
             /\ setStartDate(date) => FilterStep("startDate", date)
             /\ setEndDate(date) => FilterStep("endDate", date)
       /\ \A price \in PriceArgs :
             /\ setMinPrice(price) => FilterStep("minPrice", price)
             /\ setMaxPrice(price) => FilterStep("maxPrice", price)
       /\ \A categoryId \in CategoryArgs :
             toggleCategory(categoryId) =>
                 /\ OnlyFilter("selectedCategories")
                 /\ pagination'.currentPage = 1
                 /\ pagination'.itemsPerPage = pagination.itemsPerPage
       /\ \A order \in SortOrderArgs :
             setSortOrder(order) =>
                 /\ OnlyFilter("sortOrder")
                 /\ filters'.sortOrder = order
                 /\ pagination' = pagination
       /\ \A page \in PageArgs :
             setCurrentPage(page) =>
                 /\ filters' = filters
                 /\ pagination'.currentPage = page
                 /\ pagination'.itemsPerPage = pagination.itemsPerPage
       /\ \A items \in ItemsPerPageArgs :
             setItemsPerPage(items) =>
                 /\ filters' = filters
                 /\ pagination'.itemsPerPage = items
                 /\ pagination'.currentPage = 1
       /\ resetFilters =>
             /\ filters'.searchQuery = <<>>
             /\ filters'.startDate = Absent /\ filters'.endDate = Absent
             /\ filters'.minPrice = <<>> /\ filters'.maxPrice = <<>>
             /\ filters'.selectedCategories = <<>>
             /\ filters'.sortOrder = "newest"
             /\ pagination'.currentPage = 1
             /\ pagination'.itemsPerPage = pagination.itemsPerPage]_vars

\* the store holds a fetched page and its totals while filters, sort order
\* and page request have all been set
C20_Witness ==
    /\ Len(products) = NumProducts
    /\ pagination.totalItems = NumProducts
    /\ ~isLoading
    /\ filters.searchQuery = <<"A">>
    /\ filters.selectedCategories = <<"shoes">>
    /\ filters.sortOrder = "oldest"
    /\ pagination.currentPage = 2
    /\ pagination.itemsPerPage = 1

\* C15: the response of a fetchProducts call never replaces the products
\* and the pagination that the response of a call issued after it has put
\* into the store: when all overlapping calls have settled, the store holds
\* the response to the call issued last.
C15_LatestRequestWins ==
    [][\A i \in CallIds :
          (Settles(i) /\ calls[i].superseded)
              => (products' = products /\ pagination' = pagination)]_vars

\* C16: isLoading is true in every state in which a fetchProducts call is
\* in flight.
C16_LoadingWhileInFlight ==
    (\E i \in CallIds : calls[i].op # "none") => isLoading

\* C17: the step in which a fetchProducts response is applied leaves
\* currentPage and itemsPerPage as the store held them before the step, so
\* a page request set while the call was in flight outlives the response.
C17_ResponseKeepsPageRequest ==
    [][\A i \in CallIds :
          Settles(i) =>
              /\ pagination'.currentPage = pagination.currentPage
              /\ pagination'.itemsPerPage = pagination.itemsPerPage]_vars

\* the documents of the collection that the fetch of activation a selects
Selected(a, docs) == Matching(a.query, docs)

\* the number of products that a page of the activation's request holds
\* when n documents match
PageLength(a, n) ==
    LET rest == Max(0, n - Skip(a.body))
    IN  IF ItemsPerPageOf(a.body) = 0 THEN rest
        ELSE Min(rest, ItemsPerPageOf(a.body))

\* C14: the count of a search is the number of documents that its fetch's
\* predicate selects at the moment of the count, and it stays that number
\* up to the fetch as long as no step writes the collection; the success
\* response carries that count, its totalPages, and a page of the documents
\* selected at the moment of the fetch, so that the two agree when no write
\* came between.  A step of one search changes neither the collection nor
\* any other search.
C14_CountAndFetchNotAtomic ==
    [][\A i \in CallIds :
          /\ (srv[i].pc = "count" /\ srv'[i].pc = "find") =>
                srv'[i].totalItems = Cardinality(Selected(srv'[i], db))
          /\ ( /\ srv[i].pc = "find" /\ srv'[i].pc = "find" /\ db' = db
               /\ srv[i].totalItems = Cardinality(Selected(srv[i], db)) )
              => srv'[i].totalItems = Cardinality(Selected(srv'[i], db'))
          /\ (srv[i].pc = "find" /\ srv'[i].pc = "done" /\ srv'[i].resp[1].success) =>
                LET r == srv'[i].resp[1]
                    n == Cardinality(Selected(srv[i], db))
                IN  /\ r.pagination[1].totalItems = srv[i].totalItems
                    /\ r.pagination[1].totalPages =
                          TotalPages(srv[i].totalItems, ItemsPerPageOf(srv[i].body))
                    /\ Len(r.products) = PageLength(srv[i], n)
                    /\ \A k \in 1..Len(r.products) :
                          r.products[k] \in Selected(srv[i], db)
                    /\ srv[i].totalItems = n =>
                          Len(r.products) = PageLength(srv[i], r.pagination[1].totalItems)
          /\ srv'[i] # srv[i] =>
                /\ db' = db
                /\ \A j \in CallIds \ {i} : srv'[j] = srv[j]]_vars

\* a success response whose totalItems and totalPages are those of the
\* whole catalogue while its only page holds one product less: a document
\* was deleted between the count and the fetch
C14_Witness ==
    \E i \in CallIds :
        /\ Posted(i) /\ Succeeded(i)
        /\ srv[i].body = EmptyBody
        /\ Page(i).totalItems = NumProducts
        /\ Len(srv[i].resp[1].products) = NumProducts - 1

\* call i is an addProduct or deleteProduct call
Writing(i) == calls[i].op \in {"add", "delete"}

\* the step in which the write request of call i resolves / rejects
WriteSucceeds(i) ==
    Writing(i) /\ calls[i].phase = "write" /\ calls'[i].phase = "refetch"
WriteFails(i) ==
    Writing(i) /\ calls[i].phase = "write" /\ calls'[i].phase = "returned"

\* C12: the step in which the write request of addProduct or deleteProduct
\* resolves sends one search request that carries the store's filters,
\* currentPage and itemsPerPage of that moment; the call sends no other, and
\* when it returns success that request has settled.  The step in which the
\* write request rejects sends no search request, leaves products as they
\* were and returns failure.
C12_WriteThenOneRefetch ==
    [][\A i \in CallIds :
          /\ WriteSucceeds(i) =>
                /\ srv[i].pc = "idle" /\ srv'[i].pc = "connect"
                /\ srv'[i].kind = "POST"
                /\ srv'[i].body.searchQuery = Some(filters.searchQuery)
                /\ srv'[i].body.startDate = filters.startDate
                /\ srv'[i].body.endDate = filters.endDate
                /\ srv'[i].body.minPrice = Some(filters.minPrice)
                /\ srv'[i].body.maxPrice = Some(filters.maxPrice)
                /\ srv'[i].body.selectedCategories = Some(filters.selectedCategories)
                /\ srv'[i].body.sortOrder = Some(filters.sortOrder)
                /\ srv'[i].body.page = Some(pagination.currentPage)
                /\ srv'[i].body.itemsPerPage = Some(pagination.itemsPerPage)
                /\ calls'[i].fetches = 1
          /\ (Writing(i) /\ calls[i].phase # "returned" /\ calls'[i].phase = "returned"
                /\ calls'[i].returned[1].success) =>
                /\ calls[i].phase = "refetch"
                /\ calls'[i].fetches = 1
                /\ srv'[i].pc = "idle"
          /\ (Writing(i) /\ calls[i].phase = "refetch" /\ calls'[i].phase = "refetch") =>
                /\ calls'[i].fetches = 1
                /\ srv'[i].body = srv[i].body
          /\ WriteFails(i) =>
                /\ ~calls'[i].returned[1].success
                /\ calls'[i].fetches = 0
                /\ srv[i].pc = "idle" /\ srv'[i].pc = "idle"
                /\ products' = products]_vars

\* addProduct has returned success after its one re-fetch, which carried
\* the search for "A" set before the write resolved: the store holds the
\* response, with both products that match
C12_Witness ==
    \E i \in CallIds :
        /\ calls[i].op = "add"
        /\ calls[i].phase = "returned"
        /\ calls[i].returned[1].success
        /\ calls[i].fetches = 1
        /\ filters.searchQuery = <<"A">>
        /\ pagination.totalItems = 2
        /\ products # <<>>
        /\ ~isLoading

\* the step in which the fetchProducts awaited by call i ends in failure:
\* no response, a response outside 2xx, or an envelope with success false
RefetchFails(i) ==
    \/ RefetchNoResponse(i)
    \/ RefetchSettles(i) /\ (IsAxiosError(srv[i].resp[1]) \/ ~srv[i].resp[1].success)

\* C18: when the write has succeeded and the re-fetch fails, the call
\* returns success (addProduct with its success message), error holds the
\* message of the re-fetch's failure (the message of a failure envelope sent
\* with a status outside 2xx), products are as they were and isLoading is
\* false.  When the write fails, the call returns failure, error is set and
\* isLoading is false.
C18_ReturnReportsWriteOnly ==
    [][\A i \in CallIds :
          /\ RefetchFails(i) =>
                /\ calls'[i].returned[1].success
                /\ calls[i].op = "add" => calls'[i].returned[1].message = Some(Added)
                /\ error' # Absent
                /\ (RefetchSettles(i) /\ IsAxiosError(srv[i].resp[1])
                      /\ srv[i].resp[1].message # Absent)
                      => error' = srv[i].resp[1].message
                /\ RefetchNoResponse(i) => error' = Some(NetworkError)
                /\ products' = products
                /\ isLoading' = FALSE
          /\ WriteFails(i) =>
                /\ ~calls'[i].returned[1].success
                /\ error' # Absent
                /\ isLoading' = FALSE]_vars

\* deleteProduct has returned true while the store shows the failure message
\* of its re-fetch next to the products of an earlier one
C18_Witness ==
    \E i \in CallIds :
        /\ calls[i].op = "delete"
        /\ calls[i].phase = "returned"
        /\ calls[i].returned[1].success
        /\ error = Some(FailureMessage)
        /\ products # <<>>
        /\ ~isLoading

====
